---- MODULE Spec2Model ----
(***************************************************************************)
(* Boot orchestration of the hvt tender: tenders/hvt/hvt_main.c.           *)
(*                                                                         *)
(* The model follows main() statement by statement.  A command-line token  *)
(* is a sequence of one-character strings, an argv pointer is an index     *)
(* into the vector `args' (the index just past the end is the terminating  *)
(* NULL), and a size_t is four base-2^20 limbs, least significant first,   *)
(* the last one holding the remaining 4 bits of the 64-bit word.           *)
(***************************************************************************)
EXTENDS Integers, Sequences, FiniteSets, TLC

\* ------------------------------------------------------------------ bounds
MaxArgs == 2        \* tokens of the freely generated command lines
MaxEntries == 1     \* entries in the manifest
MaxDigits == 2      \* digits of a generated --mem= value

\* --------------------------------------------------------------- constants
SHIFT == 20                     \* mem << 20
WordBits == 64                  \* width of size_t
DefaultMemSize == 536870912     \* size_t mem_size = 0x20000000
\* First reserved manifest entry type; the value (1U << 30) is the one of the
\* manifest ABI header, hvt_main.c only compares against it.
MFT_RESERVED_FIRST == 2^30

LimbBase == 2^SHIFT
TopBase == 2^(WordBits - 3 * SHIFT)

\* ------------------------------------------------------------------ tokens
TokProg == <<"h", "v", "t">>
TokHelp == <<"-", "-", "h", "e", "l", "p">>
TokVersion == <<"-", "-", "v", "e", "r", "s", "i", "o", "n">>
TokDashDash == <<"-", "-">>
MemPrefix == <<"-", "-", "m", "e", "m", "=">>
TokMem2 == MemPrefix \o <<"2">>
TokNet == <<"-", "-", "n", "e", "t">>
TokImg == <<"i", "m", "g">>

Tokens == {TokHelp, TokVersion, TokDashDash, TokMem2, TokNet, TokImg}

RECURSIVE SeqsUpTo(_, _)
SeqsUpTo(S, n) ==
    IF n = 0 THEN {<<>>}
    ELSE LET shorter == SeqsUpTo(S, n - 1)
         IN  shorter \cup {Append(s, t) : s \in shorter, t \in S}

\* Command lines: every vector of at most MaxArgs tokens, and every vector of
\* three tokens whose first one is an option pass 2 can accept
CmdLines ==
    {<<TokProg>> \o s : s \in SeqsUpTo(Tokens, MaxArgs)}
        \cup {<<TokProg, o, s, t>> :
                 o \in {TokMem2, TokNet}, s \in Tokens, t \in Tokens}

\* Values of --mem=: signed and unsigned digit strings, text that is no
\* number, and three long ones: 512, 2^44 and 2^44 + 1
Val512 == <<"5", "1", "2">>
ValTwo44 ==
    <<"1", "7", "5", "9", "2", "1", "8", "6", "0", "4", "4", "4", "1", "6">>
ValTwo44Plus1 ==
    <<"1", "7", "5", "9", "2", "1", "8", "6", "0", "4", "4", "4", "1", "7">>
DigitStrings ==
    (SeqsUpTo({"0", "1"}, MaxDigits) \ {<<>>})
        \cup {Val512, ValTwo44, ValTwo44Plus1}
MemValues ==
    DigitStrings \cup {<<"-">> \o d : d \in DigitStrings}
        \cup {<<>>, <<"-">>, <<"a", "b", "c">>}
MemTokens == {MemPrefix \o v : v \in MemValues}

\* Command lines for --mem=: one value, or a value after an accepted one
MemCmdLines ==
    {<<TokProg, t, TokImg>> : t \in MemTokens}
        \cup {<<TokProg, TokMem2, t, TokImg>> : t \in MemTokens}

\* ----------------------------------------------------- C library functions
\* strcmp(a, b) == 0
StrEq(a, b) == a = b

\* strncmp(p, s, n) == 0 for a prefix p of length n
StrnEq(p, s, n) == Len(s) >= n /\ SubSeq(s, 1, n) = SubSeq(p, 1, n)

Digits == <<"0", "1", "2", "3", "4", "5", "6", "7", "8", "9">>
IsDigit(c) == \E d \in 1..10 : Digits[d] = c
DigitVal(c) == (CHOOSE d \in 1..10 : Digits[d] = c) - 1

\* size_t values
SizeZero == <<0, 0, 0, 0>>
ToSize(n) == <<n % LimbBase, n \div LimbBase, 0, 0>>

\* l * 10 + d, modulo 2^WordBits
MulAdd10(l, d) ==
    LET x1 == l[1] * 10 + d
        x2 == l[2] * 10 + (x1 \div LimbBase)
        x3 == l[3] * 10 + (x2 \div LimbBase)
        x4 == l[4] * 10 + (x3 \div LimbBase)
    IN  <<x1 % LimbBase, x2 % LimbBase, x3 % LimbBase, x4 % TopBase>>

\* -l, modulo 2^WordBits (the bit pattern of a negative ssize_t)
Negate(l) ==
    LET b1 == IF l[1] = 0 THEN 0 ELSE 1
        b2 == IF l[2] + b1 = 0 THEN 0 ELSE 1
        b3 == IF l[3] + b2 = 0 THEN 0 ELSE 1
    IN  <<(LimbBase - l[1]) % LimbBase,
          (2 * LimbBase - l[2] - b1) % LimbBase,
          (2 * LimbBase - l[3] - b2) % LimbBase,
          (2 * TopBase - l[4] - b3) % TopBase>>

\* l << SHIFT, modulo 2^WordBits: every limb moves up by one
ShiftLeft(l) == <<0, l[1], l[2], l[3] % TopBase>>

RECURSIVE ScanDigits(_, _, _)
ScanDigits(s, i, acc) ==
    IF i > Len(s) \/ ~IsDigit(s[i]) THEN acc
    ELSE ScanDigits(s, i + 1, MulAdd10(acc, DigitVal(s[i])))

\* sscanf(cmdarg, "--mem=%zd", &mem) for a cmdarg that starts with "--mem=":
\* rc is the return value and mem the value stored (meaningful when rc = 1).
\* The tokens of the model stay below 2^63, where strtol does not saturate.
Sscanf(cmdarg) ==
    LET s == SubSeq(cmdarg, Len(MemPrefix) + 1, Len(cmdarg))
        signed == s # <<>> /\ s[1] \in {"-", "+"}
        first == IF signed THEN 2 ELSE 1
        mag == ScanDigits(s, first, SizeZero)
    IN  IF s = <<>> THEN [rc |-> -1, mem |-> SizeZero]
        ELSE IF first > Len(s) \/ ~IsDigit(s[first])
                 THEN [rc |-> 0, mem |-> SizeZero]
        ELSE [rc |-> 1,
              mem |-> IF signed /\ s[1] = "-" THEN Negate(mag) ELSE mag]

\* Values an uninitialised size_t may hold
Garbage ==
    {SizeZero, ToSize(1),
     <<LimbBase - 1, LimbBase - 1, LimbBase - 1, TopBase - 1>>}

\* handle_mem(cmdarg, &mem_size): `garbage' is the indeterminate value of
\* `mem' when sscanf stores nothing.  exit = TRUE is errx(1, ...).
handle_mem(cmdarg, garbage) ==
    LET sc == Sscanf(cmdarg)
        mem0 == IF sc.rc = 1 THEN sc.mem ELSE garbage
        mem == ShiftLeft(mem0)
    IN  IF sc.rc # 1 \/ mem = SizeZero
            THEN [exit |-> TRUE, mem |-> mem]
            ELSE [exit |-> FALSE, mem |-> mem]

\* ---------------------------------------------------------------- registry
\* The compiled-in modules between __start_modules and __stop_modules, in
\* link order.  Every module has a name and a setup hook (the asserts of
\* usage and setup_modules); handle_cmdarg and usage are optional.
Modules == <<[name |-> "net", handle_cmdarg |-> TRUE, usage |-> TRUE],
             [name |-> "core", handle_cmdarg |-> FALSE, usage |-> FALSE],
             [name |-> "blk", handle_cmdarg |-> TRUE, usage |-> TRUE]>>
NumModules == Len(Modules)

\* Return values a module hook can give
HookResults == {0, -1}

\* ---------------------------------------------------------------- manifest
EntryTypes == {2, MFT_RESERVED_FIRST}
Entries == [type : EntryTypes, attached : {FALSE}]
\* An entry of a device type, as the loader delivers it
DeviceEntry == [type |-> 2, attached |-> FALSE]
\* The manifests of up to MaxEntries entries, and one declaring two devices
Manifests ==
    SeqsUpTo(Entries, MaxEntries) \cup {<<DeviceEntry, DeviceEntry>>}

\* ------------------------------------------------------------------- state
VARIABLES
    args,                 \* the argument vector of the process, args[1] = prog
    HVT_DROP_PRIVILEGES,  \* build-time switch
    pc,                   \* position of main()
    argc, argv,           \* main's argc and argv cursor (index into args)
    argc1, argv1,         \* pass-1 copies
    elf_filename,         \* pointer to the image path token (index), 0 unset
    elf_fd,               \* "none", "open" or "closed"
    mem_size,             \* size_t mem_size
    matched,
    mft,                  \* manifest entries
    claimers,             \* per device entry, the modules that attached it
    mft_state,            \* "none", "loaded", "valid" or "freed"
    handlers,             \* signals whose disposition is sig_handler
    mod,                  \* cursor of the module loop in setup_modules
    exit_code, err,       \* exit status and error kind once pc = "exited"
    trace,                \* boot steps performed so far, in order
    calls,                \* handle_cmdarg hooks run: <<module, index, rc>>
    setups,               \* setup hooks run: <<module, rc>>
    reported,             \* entries the attachment audit warned about
    mem_args,             \* argv indexes passed to handle_mem
    drops,                \* number of calls of hvt_drop_privileges
    bi_argc, bi_argv      \* argc, argv given to hvt_boot_info_init

vars == <<args, HVT_DROP_PRIVILEGES, pc, argc, argv, argc1, argv1,
          elf_filename, elf_fd, mem_size, matched, mft, claimers, mft_state,
          handlers, mod, exit_code, err, trace, calls, setups, reported,
          mem_args, drops, bi_argc, bi_argv>>

Terminal == {"exited", "aborted", "crashed"}

\* argv[i] == NULL
IsNull(i) == i > Len(args)
\* *argv[i][0]
FirstChar(i) == IF args[i] = <<>> THEN "" ELSE args[i][1]
\* *a && *a[0] == '-'
IsOption(i) == ~IsNull(i) /\ FirstChar(i) = "-"

Log(step) ==
    IF trace # <<>> /\ trace[Len(trace)] = step THEN trace
    ELSE Append(trace, step)

\* exit(code), err(code, ...), errx(code, ...)
Exit(code, kind) == pc' = "exited" /\ exit_code' = code /\ err' = kind

\* usage(prog) as a help printer that exits with status 0
usage_exit0(kind) == Exit(0, kind)

\* usage(prog), called for the reason `kind'
usage(kind) == Exit(1, kind)

\* version(prog)
version == Exit(0, "Version")

\* A collaborator that returns nothing terminates the process itself when it
\* fails (hvt_init, elf_load, hvt_drop_privileges).
CollaboratorExits(ok) == ~ok

\* The process starts main() with one of the command lines of A
InitWith(A) ==
    /\ args \in A
    /\ HVT_DROP_PRIVILEGES \in BOOLEAN
    /\ pc = "start"
    /\ argc = Len(args)
    /\ argv = 1
    /\ argc1 = 0
    /\ argv1 = 0
    /\ elf_filename = 0
    /\ elf_fd = "none"
    /\ mem_size = ToSize(DefaultMemSize)
    /\ matched = 0
    /\ mft = <<>>
    /\ claimers = <<>>
    /\ mft_state = "none"
    /\ handlers = {}
    /\ mod = 0
    /\ exit_code = 0
    /\ err = ""
    /\ trace = <<>>
    /\ calls = <<>>
    /\ setups = <<>>
    /\ reported = <<>>
    /\ mem_args = <<>>
    /\ drops = 0
    /\ bi_argc = 0
    /\ bi_argv = 0

Init == InitWith(CmdLines)

InitMem == InitWith(MemCmdLines)

\* Start with the "argv++" but not the "argc--"
Start_nodec ==
    /\ pc = "start"
    /\ pc' = "pass1"
    /\ argc' = argc
    /\ argv' = argv + 1
    /\ argc1' = argc
    /\ argv1' = argv + 1
    /\ UNCHANGED <<args, HVT_DROP_PRIVILEGES, elf_filename, elf_fd, mem_size,
                   matched, mft, claimers, mft_state, handlers, mod,
                   exit_code, err, trace, calls, setups, reported, mem_args,
                   drops, bi_argc, bi_argv>>

\* prog = basename(*argv); argc--; argv++; argc1 = argc; argv1 = argv
Start ==
    /\ pc = "start"
    /\ pc' = "pass1"
    /\ argc' = argc - 1
    /\ argv' = argv + 1
    /\ argc1' = argc - 1
    /\ argv1' = argv + 1
    /\ UNCHANGED <<args, HVT_DROP_PRIVILEGES, elf_filename, elf_fd, mem_size,
                   matched, mft, claimers, mft_state, handlers, mod, exit_code,
                   err, trace, calls, setups, reported, mem_args, drops,
                   bi_argc, bi_argv>>

\* Pass1Step without the "*argv1 == NULL" check that follows the loop
Pass1Step_nocheck ==
    /\ pc = "pass1"
    /\ trace' = Log("pass1")
    /\ LET sep == IsOption(argv1) /\ StrEq(TokDashDash, args[argv1])
           a1 == IF sep THEN argv1 + 1 ELSE argv1
           c1 == IF sep THEN argc1 - 1 ELSE argc1
       IN  IF IsOption(argv1) /\ ~sep
           THEN IF StrEq(TokHelp, args[argv1])
                    THEN /\ usage("Help")
                         /\ UNCHANGED <<argc1, argv1, elf_filename>>
                ELSE IF StrEq(TokVersion, args[argv1])
                    THEN /\ version
                         /\ UNCHANGED <<argc1, argv1, elf_filename>>
                ELSE /\ argc1' = argc1 - 1
                     /\ argv1' = argv1 + 1
                     /\ UNCHANGED <<pc, exit_code, err, elf_filename>>
           ELSE /\ argc1' = c1
                /\ argv1' = a1
                /\ elf_filename' = a1
                /\ pc' = "open"
                /\ UNCHANGED <<exit_code, err>>
    /\ UNCHANGED <<args, HVT_DROP_PRIVILEGES, argc, argv, elf_fd, mem_size,
                   matched, mft, claimers, mft_state, handlers, mod, calls,
                   setups, reported, mem_args, drops, bi_argc, bi_argv>>

\* One evaluation of the pass-1 loop: an option token is skipped or ends the
\* process; when the loop ends the operand is checked and remembered.
Pass1Step ==
    /\ pc = "pass1"
    /\ trace' = Log("pass1")
    /\ LET sep == IsOption(argv1) /\ StrEq(TokDashDash, args[argv1])
           a1 == IF sep THEN argv1 + 1 ELSE argv1
           c1 == IF sep THEN argc1 - 1 ELSE argc1
       IN  IF IsOption(argv1) /\ ~sep
           THEN IF StrEq(TokHelp, args[argv1])
                    THEN /\ usage("Help")
                         /\ UNCHANGED <<argc1, argv1, elf_filename>>
                ELSE IF StrEq(TokVersion, args[argv1])
                    THEN /\ version
                         /\ UNCHANGED <<argc1, argv1, elf_filename>>
                ELSE /\ argc1' = argc1 - 1
                     /\ argv1' = argv1 + 1
                     /\ UNCHANGED <<pc, exit_code, err, elf_filename>>
           ELSE /\ argc1' = c1
                /\ argv1' = a1
                /\ IF IsNull(a1)
                       THEN /\ usage("MissingOperand")
                            /\ UNCHANGED elf_filename
                       ELSE /\ elf_filename' = a1
                            /\ pc' = "open"
                            /\ UNCHANGED <<exit_code, err>>
    /\ UNCHANGED <<args, HVT_DROP_PRIVILEGES, argc, argv, elf_fd, mem_size,
                   matched, mft, claimers, mft_state, handlers, mod, calls,
                   setups, reported, mem_args, drops, bi_argc, bi_argv>>

\* elf_fd = open(elf_filename, O_RDONLY)
ImageOpen(ok) ==
    /\ pc = "open"
    /\ trace' = Log("open")
    /\ IF ok THEN /\ elf_fd' = "open"
                  /\ pc' = "load_note"
                  /\ UNCHANGED <<exit_code, err>>
             ELSE /\ Exit(1, "ImageOpenFailure")
                  /\ UNCHANGED elf_fd
    /\ UNCHANGED <<args, HVT_DROP_PRIVILEGES, argc, argv, argc1, argv1,
                   elf_filename, mem_size, matched, mft, claimers, mft_state,
                   handlers, mod, calls, setups, reported, mem_args, drops,
                   bi_argc, bi_argv>>

\* elf_load_note(...): found is FALSE when the image has no manifest note
LoadNote(found, m) ==
    /\ pc = "load_note"
    /\ trace' = Log("manifest")
    /\ IF found THEN /\ mft' = m
                     /\ claimers' = [i \in 1..Len(m) |-> {}]
                     /\ mft_state' = "loaded"
                     /\ pc' = "validate"
                     /\ UNCHANGED <<exit_code, err>>
                ELSE /\ Exit(1, "ManifestAbsent")
                     /\ UNCHANGED <<mft, claimers, mft_state>>
    /\ UNCHANGED <<args, HVT_DROP_PRIVILEGES, argc, argv, argc1, argv1,
                   elf_filename, elf_fd, mem_size, matched, handlers, mod,
                   calls, setups, reported, mem_args, drops, bi_argc, bi_argv>>

\* Validate that goes on to pass 2 whatever mft_validate returned
Validate_lenient(ok) ==
    /\ pc = "validate"
    /\ trace' = Log("manifest")
    /\ mft_state' = IF ok THEN "valid" ELSE "loaded"
    /\ pc' = "pass2"
    /\ UNCHANGED <<args, HVT_DROP_PRIVILEGES, argc, argv, argc1, argv1,
                   elf_filename, elf_fd, mem_size, matched, mft, claimers,
                   handlers, mod, exit_code, err, calls, setups, reported,
                   mem_args, drops, bi_argc, bi_argv>>

\* mft_validate(mft, mft_size)
Validate(ok) ==
    /\ pc = "validate"
    /\ trace' = Log("manifest")
    /\ IF ok THEN /\ mft_state' = "valid"
                  /\ pc' = "pass2"
                  /\ UNCHANGED <<exit_code, err>>
             ELSE /\ mft_state' = "freed"
                  /\ Exit(1, "ManifestInvalid")
    /\ UNCHANGED <<args, HVT_DROP_PRIVILEGES, argc, argv, argc1, argv1,
                   elf_filename, elf_fd, mem_size, matched, mft, claimers,
                   handlers, mod, calls, setups, reported, mem_args, drops,
                   bi_argc, bi_argv>>

\* The module loop of handle_cmdarg without the "return 0" of a claim: every
\* hook runs, and success is reported when one of them claimed
RECURSIVE CmdargLoop_noreturn(_, _, _)
CmdargLoop_noreturn(m, resp, invoked) ==
    IF m > NumModules
        THEN [rc |-> IF \E k \in 1..Len(invoked) : resp[invoked[k]] = 0
                         THEN 0 ELSE -1,
              invoked |-> invoked]
    ELSE IF Modules[m].handle_cmdarg
        THEN CmdargLoop_noreturn(m + 1, resp, Append(invoked, m))
    ELSE CmdargLoop_noreturn(m + 1, resp, invoked)

\* handle_cmdarg(cmdarg, mft): resp[m] is what module m's hook returns if it
\* is called.  rc is the return value, invoked the modules whose hook ran.
RECURSIVE CmdargLoop(_, _, _)
CmdargLoop(m, resp, invoked) ==
    IF m > NumModules THEN [rc |-> -1, invoked |-> invoked]
    ELSE IF Modules[m].handle_cmdarg
        THEN IF resp[m] = 0
                 THEN [rc |-> 0, invoked |-> Append(invoked, m)]
                 ELSE CmdargLoop(m + 1, resp, Append(invoked, m))
        ELSE CmdargLoop(m + 1, resp, invoked)

\* handle_cmdarg whose final return reports success
handle_cmdarg_always(resp) ==
    [rc |-> 0, invoked |-> CmdargLoop(1, resp, <<>>).invoked]

handle_cmdarg(resp) == CmdargLoop(1, resp, <<>>)

\* The modules whose hook runs when every one of them declines
HookedModules == handle_cmdarg([m \in 1..NumModules |-> -1]).invoked

\* strncmp("--mem=", *argv, 6) == 0
IsMemOption(i) == StrnEq(MemPrefix, args[i], Len(MemPrefix))

\* Module m marks entry e attached (e = 0: it attaches nothing)
Attach(m, e) ==
    IF e = 0 THEN UNCHANGED <<mft, claimers>>
    ELSE /\ mft' = [mft EXCEPT ![e].attached = TRUE]
         /\ claimers' = IF mft[e].type >= MFT_RESERVED_FIRST THEN claimers
                         ELSE [claimers EXCEPT ![e] = @ \cup {m}]

\* EndPass2 without the "argc--; argv++" that steps over the image path
EndPass2_keep(a, c) ==
    /\ IF elf_filename = a /\ ~IsNull(a)
           THEN /\ pc' = "sigaction_int"
                /\ argc' = c
                /\ argv' = a
           ELSE /\ pc' = "aborted"
                /\ argc' = c
                /\ argv' = a
    /\ UNCHANGED <<exit_code, err, matched, mem_size, mft, claimers, calls,
                   mem_args>>

\* The pass-2 loop has ended with the cursor at a and the count at c:
\* assert(elf_filename == *argv); argc--; argv++
EndPass2(a, c) ==
    /\ IF elf_filename = a /\ ~IsNull(a)
           THEN /\ pc' = "sigaction_int"
                /\ argc' = c - 1
                /\ argv' = a + 1
           ELSE /\ pc' = "aborted"
                /\ argc' = c
                /\ argv' = a
    /\ UNCHANGED <<exit_code, err, matched, mem_size, mft, claimers, calls,
                   mem_args>>

\* "if (handle_cmdarg(*argv, mft) == 0) ... if (!matched) ..." with the cursor
\* at a, the count at c and matched = mt
Dispatch(a, c, mt) ==
    IF IsNull(a)
    THEN \* a hook is handed NULL: it faults or declines
         \E segv \in BOOLEAN :
            /\ calls' = calls \o
                   IF segv THEN <<<<HookedModules[1], a, -1>>>>
                   ELSE [k \in 1..Len(HookedModules) |->
                           <<HookedModules[k], a, -1>>]
            /\ argc' = c
            /\ argv' = a
            /\ matched' = mt
            /\ UNCHANGED <<mft, claimers>>
            /\ IF segv THEN /\ pc' = "crashed"
                            /\ UNCHANGED <<exit_code, err>>
               ELSE IF mt = 0 THEN usage("UnclaimedOption")
               ELSE UNCHANGED <<pc, exit_code, err>>
    ELSE \E resp \in [1..NumModules -> HookResults], att \in 0..Len(mft) :
            LET r == handle_cmdarg(resp)
            IN  /\ calls' = calls \o
                       [k \in 1..Len(r.invoked) |->
                           <<r.invoked[k], a, resp[r.invoked[k]]>>]
                /\ IF r.rc = 0
                       THEN /\ Attach(r.invoked[Len(r.invoked)], att)
                            /\ matched' = 1
                            /\ argc' = c - 1
                            /\ argv' = a + 1
                            /\ UNCHANGED <<pc, exit_code, err>>
                       ELSE /\ att = 0
                            /\ UNCHANGED <<mft, claimers>>
                            /\ matched' = mt
                            /\ argc' = c
                            /\ argv' = a
                            /\ IF mt = 0 THEN usage("UnclaimedOption")
                               ELSE UNCHANGED <<pc, exit_code, err>>

\* One evaluation of the pass-2 loop
Pass2Step ==
    /\ pc = "pass2"
    /\ trace' = Log("pass2")
    /\ IF ~IsOption(argv)
           THEN EndPass2(argv, argc)
       ELSE IF StrEq(TokDashDash, args[argv])
           THEN EndPass2(argv + 1, argc - 1)
       ELSE IF IsMemOption(argv)
           THEN \E garbage \in Garbage :
                  LET hm == handle_mem(args[argv], garbage)
                  IN  /\ mem_args' = Append(mem_args, argv)
                      /\ IF hm.exit
                             THEN /\ Exit(1, "MalformedCoreOption")
                                  /\ matched' = 0
                                  /\ UNCHANGED <<argc, argv, mem_size, mft,
                                                 claimers, calls>>
                             ELSE /\ mem_size' = hm.mem
                                  /\ Dispatch(argv + 1, argc - 1, 1)
       ELSE /\ UNCHANGED <<mem_args, mem_size>>
            /\ Dispatch(argv, argc, 0)
    /\ UNCHANGED <<args, HVT_DROP_PRIVILEGES, argc1, argv1, elf_filename,
                   elf_fd, mft_state, handlers, mod, setups, reported, drops,
                   bi_argc, bi_argv>>

\* sigaction(SIGINT, &sa, NULL)
SigactionInt(ok) ==
    /\ pc = "sigaction_int"
    /\ trace' = Log("signals")
    /\ IF ok THEN /\ handlers' = handlers \cup {"SIGINT"}
                  /\ pc' = "sigaction_term"
                  /\ UNCHANGED <<exit_code, err>>
             ELSE /\ Exit(1, "SignalInstallFailure")
                  /\ UNCHANGED handlers
    /\ UNCHANGED <<args, HVT_DROP_PRIVILEGES, argc, argv, argc1, argv1,
                   elf_filename, elf_fd, mem_size, matched, mft, claimers,
                   mft_state, mod, calls, setups, reported, mem_args, drops,
                   bi_argc, bi_argv>>

\* sigaction(SIGTERM, &sa, NULL)
SigactionTerm(ok) ==
    /\ pc = "sigaction_term"
    /\ trace' = Log("signals")
    /\ IF ok THEN /\ handlers' = handlers \cup {"SIGTERM"}
                  /\ pc' = "mem_init"
                  /\ UNCHANGED <<exit_code, err>>
             ELSE /\ Exit(1, "SignalInstallFailure")
                  /\ UNCHANGED handlers
    /\ UNCHANGED <<args, HVT_DROP_PRIVILEGES, argc, argv, argc1, argv1,
                   elf_filename, elf_fd, mem_size, matched, mft, claimers,
                   mft_state, mod, calls, setups, reported, mem_args, drops,
                   bi_argc, bi_argv>>

\* sig_handler that prints its diagnostic and returns to the interrupted code
sig_handler_return(signo) ==
    /\ pc \notin Terminal
    /\ signo \in handlers
    /\ exit_code' = 1
    /\ err' = "Signal"
    /\ UNCHANGED <<args, HVT_DROP_PRIVILEGES, pc, argc, argv, argc1, argv1,
                   elf_filename, elf_fd, mem_size, matched, mft, claimers,
                   mft_state, handlers, mod, trace, calls, setups, reported,
                   mem_args, drops, bi_argc, bi_argv>>

\* sig_handler(signo), run when a signal with that disposition is delivered
sig_handler(signo) ==
    /\ pc \notin Terminal
    /\ signo \in handlers
    /\ Exit(1, "Signal")
    /\ UNCHANGED <<args, HVT_DROP_PRIVILEGES, argc, argv, argc1, argv1,
                   elf_filename, elf_fd, mem_size, matched, mft, claimers,
                   mft_state, handlers, mod, trace, calls, setups, reported,
                   mem_args, drops, bi_argc, bi_argv>>

\* MemInit followed directly by hvt_vcpu_init, the image never loaded
MemInit_skipload(ok) ==
    /\ pc = "mem_init"
    /\ trace' = Log("mem_init")
    /\ IF CollaboratorExits(ok) THEN Exit(1, "InitFailure")
       ELSE /\ pc' = "vcpu_init"
            /\ UNCHANGED <<exit_code, err>>
    /\ UNCHANGED <<args, HVT_DROP_PRIVILEGES, argc, argv, argc1, argv1,
                   elf_filename, elf_fd, mem_size, matched, mft, claimers,
                   mft_state, handlers, mod, calls, setups, reported, mem_args,
                   drops, bi_argc, bi_argv>>

\* hvt_mem_size(&mem_size); hvt = hvt_init(mem_size).  What the backend makes
\* of mem_size is its own business; main's variable is kept as parsed.
MemInit(ok) ==
    /\ pc = "mem_init"
    /\ trace' = Log("mem_init")
    /\ IF CollaboratorExits(ok) THEN Exit(1, "InitFailure")
       ELSE /\ pc' = "elf_load"
            /\ UNCHANGED <<exit_code, err>>
    /\ UNCHANGED <<args, HVT_DROP_PRIVILEGES, argc, argv, argc1, argv1,
                   elf_filename, elf_fd, mem_size, matched, mft, claimers,
                   mft_state, handlers, mod, calls, setups, reported, mem_args,
                   drops, bi_argc, bi_argv>>

\* ElfLoad without the close(elf_fd) that follows elf_load
ElfLoad_noclose(ok) ==
    /\ pc = "elf_load"
    /\ trace' = Log("elf_load")
    /\ IF CollaboratorExits(ok) THEN Exit(1, "ImageLoadFailure")
       ELSE /\ pc' = "vcpu_init"
            /\ UNCHANGED <<exit_code, err>>
    /\ UNCHANGED <<args, HVT_DROP_PRIVILEGES, argc, argv, argc1, argv1,
                   elf_filename, elf_fd, mem_size, matched, mft, claimers,
                   mft_state, handlers, mod, calls, setups, reported,
                   mem_args, drops, bi_argc, bi_argv>>

\* elf_load(elf_fd, ...); close(elf_fd)
ElfLoad(ok) ==
    /\ pc = "elf_load"
    /\ trace' = Log("elf_load")
    /\ IF CollaboratorExits(ok)
           THEN /\ Exit(1, "ImageLoadFailure")
                /\ UNCHANGED elf_fd
           ELSE /\ elf_fd' = "closed"
                /\ pc' = "vcpu_init"
                /\ UNCHANGED <<exit_code, err>>
    /\ UNCHANGED <<args, HVT_DROP_PRIVILEGES, argc, argv, argc1, argv1,
                   elf_filename, mem_size, matched, mft, claimers, mft_state,
                   handlers, mod, calls, setups, reported, mem_args, drops,
                   bi_argc, bi_argv>>

\* VcpuInit with the module loop starting at the second module
VcpuInit_skip ==
    /\ pc = "vcpu_init"
    /\ trace' = Log("vcpu_init")
    /\ pc' = "setup_modules"
    /\ mod' = 2
    /\ UNCHANGED <<args, HVT_DROP_PRIVILEGES, argc, argv, argc1, argv1,
                   elf_filename, elf_fd, mem_size, matched, mft, claimers,
                   mft_state, handlers, exit_code, err, calls, setups,
                   reported, mem_args, drops, bi_argc, bi_argv>>

\* hvt_vcpu_init(hvt, gpa_ep), then the module loop of setup_modules starts
VcpuInit ==
    /\ pc = "vcpu_init"
    /\ trace' = Log("vcpu_init")
    /\ pc' = "setup_modules"
    /\ mod' = 1
    /\ UNCHANGED <<args, HVT_DROP_PRIVILEGES, argc, argv, argc1, argv1,
                   elf_filename, elf_fd, mem_size, matched, mft, claimers,
                   mft_state, handlers, exit_code, err, calls, setups,
                   reported, mem_args, drops, bi_argc, bi_argv>>

\* SetupModule without the exit(1) of a failed setup
SetupModule_noexit(rc, e) ==
    /\ pc = "setup_modules"
    /\ mod <= NumModules
    /\ trace' = Log("modules")
    /\ setups' = Append(setups, <<mod, rc>>)
    /\ rc # 0 => e = 0
    /\ Attach(mod, e)
    /\ mod' = mod + 1
    /\ UNCHANGED <<pc, exit_code, err>>
    /\ UNCHANGED <<args, HVT_DROP_PRIVILEGES, argc, argv, argc1, argv1,
                   elf_filename, elf_fd, mem_size, matched, mft_state,
                   handlers, calls, reported, mem_args, drops, bi_argc,
                   bi_argv>>

\* One iteration of the module loop of setup_modules: m->ops.setup(hvt, mft)
\* returns rc and, when it succeeds, may have attached entry e.
SetupModule(rc, e) ==
    /\ pc = "setup_modules"
    /\ mod <= NumModules
    /\ trace' = Log("modules")
    /\ setups' = Append(setups, <<mod, rc>>)
    /\ IF rc # 0
           THEN /\ e = 0
                /\ Exit(1, "ModuleSetupFailure")
                /\ UNCHANGED <<mod, mft, claimers>>
           ELSE /\ Attach(mod, e)
                /\ mod' = mod + 1
                /\ UNCHANGED <<pc, exit_code, err>>
    /\ UNCHANGED <<args, HVT_DROP_PRIVILEGES, argc, argv, argc1, argv1,
                   elf_filename, elf_fd, mem_size, matched, mft_state,
                   handlers, calls, reported, mem_args, drops, bi_argc,
                   bi_argv>>

\* The entry loop leaving at the first unattached device
RECURSIVE AuditLoop_first(_, _, _)
AuditLoop_first(e, i, st) ==
    IF i > Len(e) THEN st
    ELSE IF e[i].type >= MFT_RESERVED_FIRST THEN AuditLoop_first(e, i + 1, st)
    ELSE IF ~e[i].attached
        THEN [fail |-> TRUE, reported |-> Append(st.reported, i)]
    ELSE AuditLoop_first(e, i + 1, st)

\* The entry loop of setup_modules, from entry i on
RECURSIVE AuditLoop(_, _, _)
AuditLoop(e, i, st) ==
    IF i > Len(e) THEN st
    ELSE IF e[i].type >= MFT_RESERVED_FIRST THEN AuditLoop(e, i + 1, st)
    ELSE IF ~e[i].attached
        THEN AuditLoop(e, i + 1,
                 [fail |-> TRUE, reported |-> Append(st.reported, i)])
    ELSE AuditLoop(e, i + 1, st)

\* The second half of setup_modules without the final errx(1, ...)
Audit_nofail ==
    /\ pc = "setup_modules"
    /\ mod > NumModules
    /\ trace' = Log("modules")
    /\ LET r == AuditLoop(mft, 1, [fail |-> FALSE, reported |-> <<>>])
       IN  reported' = r.reported
    /\ pc' = "boot_info"
    /\ UNCHANGED <<args, HVT_DROP_PRIVILEGES, argc, argv, argc1, argv1,
                   elf_filename, elf_fd, mem_size, matched, mft, claimers,
                   mft_state, handlers, mod, exit_code, err, calls, setups,
                   mem_args, drops, bi_argc, bi_argv>>

\* The second half of setup_modules, reached when the module loop is done
Audit ==
    /\ pc = "setup_modules"
    /\ mod > NumModules
    /\ trace' = Log("modules")
    /\ LET r == AuditLoop(mft, 1, [fail |-> FALSE, reported |-> <<>>])
       IN  /\ reported' = r.reported
           /\ IF r.fail THEN Exit(1, "UnattachedDevices")
              ELSE /\ pc' = "boot_info"
                   /\ UNCHANGED <<exit_code, err>>
    /\ UNCHANGED <<args, HVT_DROP_PRIVILEGES, argc, argv, argc1, argv1,
                   elf_filename, elf_fd, mem_size, matched, mft, claimers,
                   mft_state, handlers, mod, calls, setups, mem_args, drops,
                   bi_argc, bi_argv>>

\* BootInfoInit followed directly by the execution loop
BootInfoInit_nodrop ==
    /\ pc = "boot_info"
    /\ trace' = Log("boot_info")
    /\ bi_argc' = argc
    /\ bi_argv' = argv
    /\ pc' = "handoff"
    /\ UNCHANGED <<args, HVT_DROP_PRIVILEGES, argc, argv, argc1, argv1,
                   elf_filename, elf_fd, mem_size, matched, mft, claimers,
                   mft_state, handlers, mod, exit_code, err, calls, setups,
                   reported, mem_args, drops>>

\* hvt_boot_info_init(hvt, gpa_kend, argc, argv, mft, mft_size)
BootInfoInit ==
    /\ pc = "boot_info"
    /\ trace' = Log("boot_info")
    /\ bi_argc' = argc
    /\ bi_argv' = argv
    /\ pc' = "drop"
    /\ UNCHANGED <<args, HVT_DROP_PRIVILEGES, argc, argv, argc1, argv1,
                   elf_filename, elf_fd, mem_size, matched, mft, claimers,
                   mft_state, handlers, mod, exit_code, err, calls, setups,
                   reported, mem_args, drops>>

\* #if HVT_DROP_PRIVILEGES: hvt_drop_privileges()
DropPrivileges(ok) ==
    /\ pc = "drop"
    /\ HVT_DROP_PRIVILEGES
    /\ trace' = Log("drop")
    /\ drops' = drops + 1
    /\ IF CollaboratorExits(ok) THEN Exit(1, "PrivilegeDropFailure")
       ELSE /\ pc' = "handoff"
            /\ UNCHANGED <<exit_code, err>>
    /\ UNCHANGED <<args, HVT_DROP_PRIVILEGES, argc, argv, argc1, argv1,
                   elf_filename, elf_fd, mem_size, matched, mft, claimers,
                   mft_state, handlers, mod, calls, setups, reported, mem_args,
                   bi_argc, bi_argv>>

\* #else: the two warnings
NoDropWarning ==
    /\ pc = "drop"
    /\ ~HVT_DROP_PRIVILEGES
    /\ pc' = "handoff"
    /\ UNCHANGED <<args, HVT_DROP_PRIVILEGES, argc, argv, argc1, argv1,
                   elf_filename, elf_fd, mem_size, matched, mft, claimers,
                   mft_state, handlers, mod, exit_code, err, trace, calls,
                   setups, reported, mem_args, drops, bi_argc, bi_argv>>

\* hvt_vcpu_loop(hvt) is entered
VcpuLoop ==
    /\ pc = "handoff"
    /\ trace' = Log("handoff")
    /\ pc' = "vcpu_loop"
    /\ UNCHANGED <<args, HVT_DROP_PRIVILEGES, argc, argv, argc1, argv1,
                   elf_filename, elf_fd, mem_size, matched, mft, claimers,
                   mft_state, handlers, mod, exit_code, err, calls, setups,
                   reported, mem_args, drops, bi_argc, bi_argv>>

\* return hvt_vcpu_loop(hvt)
GuestStatus == {0, 1}
LoopReturn(status) ==
    /\ pc = "vcpu_loop"
    /\ Exit(status, "GuestExit")
    /\ UNCHANGED <<args, HVT_DROP_PRIVILEGES, argc, argv, argc1, argv1,
                   elf_filename, elf_fd, mem_size, matched, mft, claimers,
                   mft_state, handlers, mod, trace, calls, setups, reported,
                   mem_args, drops, bi_argc, bi_argv>>

Next ==
    \/ Start
    \/ Pass1Step
    \/ \E ok \in BOOLEAN : ImageOpen(ok)
    \/ \E found \in BOOLEAN, m \in Manifests : LoadNote(found, m)
    \/ \E ok \in BOOLEAN : Validate(ok)
    \/ Pass2Step
    \/ \E ok \in BOOLEAN : SigactionInt(ok)
    \/ \E ok \in BOOLEAN : SigactionTerm(ok)
    \/ \E signo \in {"SIGINT", "SIGTERM"} : sig_handler(signo)
    \/ \E ok \in BOOLEAN : MemInit(ok)
    \/ \E ok \in BOOLEAN : ElfLoad(ok)
    \/ VcpuInit
    \/ \E rc \in HookResults, e \in 0..Len(mft) : SetupModule(rc, e)
    \/ Audit
    \/ BootInfoInit
    \/ \E ok \in BOOLEAN : DropPrivileges(ok)
    \/ NoDropWarning
    \/ VcpuLoop
    \/ \E status \in GuestStatus : LoopReturn(status)

Spec == Init /\ [][Next]_vars

\* The same program started on the --mem= command lines
SpecMem == InitMem /\ [][Next]_vars

TypeOK ==
    /\ pc \in {"start", "pass1", "open", "load_note", "validate", "pass2",
                "sigaction_int", "sigaction_term", "mem_init", "elf_load",
                "vcpu_init", "setup_modules", "boot_info", "drop", "handoff",
                "vcpu_loop"} \cup Terminal
    /\ argv \in 1..(Len(args) + 1)
    /\ elf_fd \in {"none", "open", "closed"}

\* ================================================================ properties
\* Notions of the command line that do not depend on how main() scans it.
Dashed(t) == t # <<>> /\ t[1] = "-"
StartsWithMem(t) ==
    Len(t) >= Len(MemPrefix) /\ SubSeq(t, 1, Len(MemPrefix)) = MemPrefix
\* The first token that is "--" or not an option, Len(args) + 1 if none
LeadEnd ==
    CHOOSE i \in 2..(Len(args) + 1) :
        /\ i = Len(args) + 1 \/ ~Dashed(args[i]) \/ args[i] = TokDashDash
        /\ \A j \in 2..(i - 1) : Dashed(args[j]) /\ args[j] # TokDashDash
HasSep == LeadEnd <= Len(args) /\ args[LeadEnd] = TokDashDash
ImageIdx == IF HasSep THEN LeadEnd + 1 ELSE LeadEnd
HasImage == ImageIdx <= Len(args)
LeadingOptions == 2..(LeadEnd - 1)

TraceHas(step) == \E k \in 1..Len(trace) : trace[k] = step
IsPrefix(s, t) == Len(s) <= Len(t) /\ s = SubSeq(t, 1, Len(s))
Devices == {i \in 1..Len(mft) : mft[i].type < MFT_RESERVED_FIRST}

\* C1: the privilege drop is invoked at most once, and only after every
\* module's setup returned success, the audit found every non-reserved entry
\* attached and boot info was constructed; after a failed setup or a reported
\* device the drop is never invoked and the process has exited with code 1.
C1_PrivilegeDropGate ==
    /\ drops <= 1
    /\ drops = 1 =>
          /\ setups = [m \in 1..NumModules |-> <<m, 0>>]
          /\ \A i \in Devices : mft[i].attached
          /\ reported = <<>>
          /\ TraceHas("boot_info")
    /\ ((\E k \in 1..Len(setups) : setups[k][2] # 0) \/ reported # <<>>) =>
          drops = 0 /\ pc = "exited" /\ exit_code = 1

C1_Witness == drops = 1 /\ pc = "handoff" /\ Devices # {}

\* C2: with HVT_DROP_PRIVILEGES enabled the execution loop is entered only
\* after hvt_drop_privileges has been called and has returned; when the drop
\* fails the process has exited with code 1, the drop is the last boot step
\* performed, the loop was never entered and no step follows.
C2_HandoffAfterDrop ==
    /\ [](HVT_DROP_PRIVILEGES =>
            /\ (TraceHas("handoff") \/ pc \in {"handoff", "vcpu_loop"}) =>
                  /\ drops = 1
                  /\ TraceHas("drop")
                  /\ err # "PrivilegeDropFailure"
            /\ err = "PrivilegeDropFailure" =>
                  /\ pc = "exited" /\ exit_code = 1
                  /\ trace[Len(trace)] = "drop"
                  /\ ~TraceHas("handoff"))
    /\ [][err # "PrivilegeDropFailure"]_vars

C2_Witness == HVT_DROP_PRIVILEGES /\ pc = "vcpu_loop" /\ drops = 1

\* The boot steps in the order of section 4.5
BootOrder == <<"pass1", "open", "manifest", "pass2", "signals", "mem_init",
               "elf_load", "vcpu_init", "modules", "boot_info", "drop",
               "handoff">>
BootOrderNoDrop == SelectSeq(BootOrder, LAMBDA st : st # "drop")
\* The step in which an error kind arises
StepOfErr ==
    [k \in {"Help", "Version", "MissingOperand"} |-> "pass1"] @@
    [k \in {"ImageOpenFailure"} |-> "open"] @@
    [k \in {"ManifestAbsent", "ManifestInvalid"} |-> "manifest"] @@
    [k \in {"MalformedCoreOption", "UnclaimedOption"} |-> "pass2"] @@
    [k \in {"SignalInstallFailure"} |-> "signals"] @@
    [k \in {"InitFailure"} |-> "mem_init"] @@
    [k \in {"ImageLoadFailure"} |-> "elf_load"] @@
    [k \in {"ModuleSetupFailure", "UnattachedDevices"} |-> "modules"] @@
    [k \in {"PrivilegeDropFailure"} |-> "drop"] @@
    [k \in {"GuestExit"} |-> "handoff"]

\* C3 as stated: the steps performed are always an initial part of the
\* twelve steps, privilege drop included.
C3_AllTwelveSteps == IsPrefix(trace, BootOrder)

\* C3: the steps performed are always an initial part of the twelve steps in
\* their order, the privilege drop being left out exactly when
\* HVT_DROP_PRIVILEGES is off; a process that ended on an error ended in the
\* step where the error arose, all earlier steps done and no later one.
C3_BootOrder ==
    /\ IsPrefix(trace, IF HVT_DROP_PRIVILEGES THEN BootOrder
                                              ELSE BootOrderNoDrop)
    /\ pc = "exited" /\ err # "Signal" =>
          trace # <<>> /\ trace[Len(trace)] = StepOfErr[err]
    /\ pc \in {"aborted", "crashed"} => trace[Len(trace)] = "pass2"

C3_Witness ==
    ~HVT_DROP_PRIVILEGES /\ pc = "vcpu_loop" /\ trace = BootOrderNoDrop

\* C4: when the module loop is done the audit reports exactly the entries of
\* non-reserved type whose attached flag is false, each once, and the boot
\* ends with exit code 1 exactly when there is such an entry.
C4_AuditExact ==
    [][(pc = "setup_modules" /\ mod > NumModules /\ err' # "Signal") =>
          LET U == {i \in Devices : ~mft[i].attached}
          IN  /\ {reported'[k] : k \in 1..Len(reported')} = U
              /\ Len(reported') = Cardinality(U)
              /\ (pc' = "exited" /\ exit_code' = 1
                     /\ err' = "UnattachedDevices") <=> U # {}
              /\ U = {} => pc' = "boot_info"]_vars

C4_Witness ==
    err = "UnattachedDevices" /\ Len(reported) >= 2

\* The text after "--mem=" read as a decimal integer, independently of sscanf
DigitChars == {"0", "1", "2", "3", "4", "5", "6", "7", "8", "9"}
MemText(t) == SubSeq(t, Len(MemPrefix) + 1, Len(t))
Unsigned(v) == IF v # <<>> /\ v[1] \in {"-", "+"} THEN Tail(v) ELSE v
IsInteger(v) ==
    /\ Unsigned(v) # <<>>
    /\ \A k \in 1..Len(Unsigned(v)) : Unsigned(v)[k] \in DigitChars
IsZero(v) == \A k \in 1..Len(Unsigned(v)) : Unsigned(v)[k] = "0"
NonPositive(v) == IsInteger(v) /\ (v[1] = "-" \/ IsZero(v))
Positive(v) == IsInteger(v) /\ ~NonPositive(v)
\* The value of a digit string in base 2^20, least significant limb first,
\* the last limb unbounded
RECURSIVE ExactValue(_, _, _)
ExactValue(d, i, acc) ==
    IF i > Len(d) THEN acc
    ELSE LET dv == CHOOSE n \in 0..9 : ToString(n) = d[i]
             x1 == acc[1] * 10 + dv
             x2 == acc[2] * 10 + (x1 \div 2^20)
             x3 == acc[3] * 10 + (x2 \div 2^20)
             x4 == acc[4] * 10 + (x3 \div 2^20)
         IN  ExactValue(d, i + 1, <<x1 % 2^20, x2 % 2^20, x3 % 2^20, x4>>)
\* main() is about to run handle_mem on *argv
AtMemOption ==
    /\ pc = "pass2"
    /\ argv <= Len(args)
    /\ Dashed(args[argv]) /\ args[argv] # TokDashDash
    /\ StartsWithMem(args[argv])

\* C5: a --mem= value that is no integer, or an integer <= 0, ends the
\* process with exit code 1 (MalformedCoreOption) and leaves the memory size
\* as it was.
C5_MalformedMemRejected ==
    [][(AtMemOption /\ (~IsInteger(MemText(args[argv]))
                           \/ NonPositive(MemText(args[argv])))) =>
          /\ pc' = "exited" /\ exit_code' = 1
          /\ err' = "MalformedCoreOption"
          /\ mem_size' = mem_size]_vars

\* C6: whenever --mem=N with N > 0 is accepted, the memory size set is
\* exactly N * 2^20.
C6_MemExact ==
    [][(AtMemOption /\ Positive(MemText(args[argv]))
           /\ err' # "MalformedCoreOption") =>
          mem_size' \o <<0>> =
              <<0>> \o ExactValue(Unsigned(MemText(args[argv])), 1,
                                   <<0, 0, 0, 0>>)]_vars

\* The vector handed to hvt_boot_info_init
Residual == SubSeq(args, bi_argv, bi_argv + bi_argc - 1)

\* C7 as stated: the vector handed to boot-info construction is the image
\* path token followed by every token after it.
C7_ResidualWithImage ==
    TraceHas("boot_info") => Residual = SubSeq(args, ImageIdx, Len(args))

\* C7: the vector handed to boot-info construction is every token after the
\* image path token, in order and unmodified; the image path is not part of it.
C7_ResidualAfterImage ==
    /\ [](TraceHas("boot_info") =>
            HasImage /\ Residual = SubSeq(args, ImageIdx + 1, Len(args)))
    /\ [][args' = args]_vars

C7_Witness == TraceHas("boot_info") /\ bi_argc >= 1 /\ ImageIdx > 2

C9_SeparatorEndsOptions ==
    HasSep =>
      /\ elf_filename # 0 => elf_filename = LeadEnd + 1
      /\ \A k \in 1..Len(calls) : calls[k][2] <= LeadEnd
      /\ \A k \in 1..Len(mem_args) : mem_args[k] < LeadEnd
      /\ err \in {"Help", "Version"} => argv1 < LeadEnd
      /\ err = "UnclaimedOption" => argv < LeadEnd

\* Some module claimed the token at index i
Claimed(i) == \E k \in 1..Len(calls) : calls[k][2] = i /\ calls[k][3] = 0

\* C10: pass 2 is left for the signal-handler install only if every leading
\* option starts with "--mem=" or was claimed by a module; a leading option
\* that is neither ends the process with exit code 1 (invalid option) with no
\* signal handler installed, no guest memory and no module setup run.
C10_Pass2Complete ==
    /\ [](TraceHas("signals") \/ pc = "sigaction_int" =>
            \A i \in LeadingOptions : StartsWithMem(args[i]) \/ Claimed(i))
    /\ [][(/\ pc = "pass2"
           /\ argv \in LeadingOptions
           /\ ~StartsWithMem(args[argv])
           /\ ~\E k \in 1..Len(calls') :
                   calls'[k][2] = argv /\ calls'[k][3] = 0) =>
            /\ pc' = "exited" /\ exit_code' = 1
            /\ err' = "UnclaimedOption"
            /\ handlers' = {} /\ setups' = <<>>
            /\ trace'[Len(trace')] = "pass2"]_vars

C10_Witness == err = "UnclaimedOption" /\ argv > 2

\* The modules that define a handle_cmdarg hook, in registry order
Hooked ==
    SelectSeq([m \in 1..NumModules |-> m],
              LAMBDA m : Modules[m].handle_cmdarg)

\* C11: the hooks run for one offered token are those of the modules that
\* define one, in registry order, up to and including the first that claims
\* it; no later module's hook runs for that offer, a claim moves the cursor to
\* the next token, and the token is rejected as unclaimed only when every
\* hook ran and declined.
C11_FirstClaimWins ==
    [][LET new == SubSeq(calls', Len(calls) + 1, Len(calls'))
           n == Len(new)
       IN  n > 0 =>
             /\ n <= Len(Hooked)
             /\ \A k \in 1..n : new[k][1] = Hooked[k] /\ new[k][2] = new[1][2]
             /\ \A k \in 1..(n - 1) : new[k][3] # 0
             /\ new[n][3] = 0 => argv' = new[1][2] + 1 /\ matched' = 1
             /\ (new[n][3] # 0 /\ pc' # "crashed") => n = Len(Hooked)
             /\ err' = "UnclaimedOption" =>
                   /\ n = Len(Hooked)
                   /\ \A k \in 1..n : new[k][3] # 0]_vars

C11_Witness ==
    \E k \in 1..(Len(calls) - 1) :
        /\ calls[k][1] = Hooked[1] /\ calls[k][3] # 0
        /\ calls[k + 1][1] = Hooked[2] /\ calls[k + 1][3] = 0
        /\ calls[k + 1][2] = calls[k][2]

\* The module loop has finished and the audit has run
PastAudit ==
    \/ pc \in {"boot_info", "drop", "handoff", "vcpu_loop"}
    \/ TraceHas("boot_info")
    \/ err = "UnattachedDevices"

\* C12: the setup hooks run in registry order, one call per module; the first
\* failing setup ends the process with exit code 1 with no later setup and no
\* audit run, and the audit runs only after every setup has succeeded.
C12_SetupOrder ==
    /\ Len(setups) <= NumModules
    /\ \A k \in 1..Len(setups) : setups[k][1] = k
    /\ \A k \in 1..(Len(setups) - 1) : setups[k][2] = 0
    /\ (\E k \in 1..Len(setups) : setups[k][2] # 0) =>
          /\ pc = "exited" /\ exit_code = 1 /\ err = "ModuleSetupFailure"
          /\ reported = <<>> /\ ~PastAudit
    /\ (PastAudit \/ reported # <<>>) =>
          setups = [m \in 1..NumModules |-> <<m, 0>>]

C12_Witness ==
    /\ err = "ModuleSetupFailure"
    /\ Len(setups) = 2
    /\ NumModules > 2

\* The positions of main() after both handlers are installed
LaterStates == {"mem_init", "elf_load", "vcpu_init", "setup_modules",
                "boot_info", "drop", "handoff", "vcpu_loop"}

\* C13: in every state after the install both signals have sig_handler as
\* their disposition, so a delivered signal runs it; running it ends the
\* process with exit code 1, changes nothing else, and no step follows it.
C13_SignalExit ==
    /\ [](pc \in LaterStates =>
            /\ handlers = {"SIGINT", "SIGTERM"}
            /\ \A signo \in {"SIGINT", "SIGTERM"} : ENABLED sig_handler(signo))
    /\ [](err = "Signal" => pc = "exited" /\ exit_code = 1)
    /\ [][err' = "Signal" =>
            /\ pc' = "exited" /\ exit_code' = 1
            /\ UNCHANGED <<args, HVT_DROP_PRIVILEGES, argc, argv, argc1,
                           argv1, elf_filename, elf_fd, mem_size, matched,
                           mft, claimers, mft_state, handlers, mod, trace,
                           calls, setups, reported, mem_args, drops,
                           bi_argc, bi_argv>>]_vars
    /\ [][err # "Signal"]_vars

C13_Witness ==
    /\ err = "Signal"
    /\ setups # <<>>
    /\ trace[Len(trace)] = "modules"

\* C14: an image without a manifest note and an image whose manifest fails
\* validation each end the process with exit code 1, under different error
\* kinds, in the manifest step: pass 2 has not begun, no hook has run, no
\* handler is installed and guest memory was never initialised; pass 2 is
\* entered only with a validated manifest.
C14_ManifestErrors ==
    /\ err \in {"ManifestAbsent", "ManifestInvalid"} =>
          /\ pc = "exited" /\ exit_code = 1
          /\ trace[Len(trace)] = "manifest"
          /\ ~TraceHas("pass2") /\ ~TraceHas("mem_init")
          /\ calls = <<>> /\ setups = <<>> /\ handlers = {}
    /\ err = "ManifestAbsent" => mft_state = "none"
    /\ err = "ManifestInvalid" => mft_state = "freed"
    /\ (pc = "pass2" \/ TraceHas("pass2")) => mft_state = "valid"

C14_Witness == err = "ManifestInvalid" /\ mft # <<>> /\ Len(args) > 2

C16_OnlyLeadingOptionsOffered ==
    \A k \in 1..Len(calls) : calls[k][2] \in LeadingOptions

\* C17: the pass-2 loop, when it ends, has its cursor on the image path token
\* found by pass 1: the assertion after the loop never fails and main goes on
\* with the cursor one past the image path.
C17_CursorOnImage ==
    /\ pc # "aborted"
    /\ pc = "sigaction_int" => elf_filename = ImageIdx /\ argv = ImageIdx + 1

\* The positions of main() after the image has been loaded
AfterLoad == {"vcpu_init", "setup_modules", "boot_info", "drop", "handoff",
              "vcpu_loop"}

\* C18 as stated: while the image file descriptor is open no handle_cmdarg
\* hook and no setup hook runs.
C18_NoPluginWhileOpen ==
    [][elf_fd = "open" => calls' = calls /\ setups' = setups]_vars

\* C18: the image file descriptor is closed in the step that loads the image,
\* before hvt_vcpu_init and before any setup hook; the handle_cmdarg hooks of
\* pass 2 run after the open and before the close.
C18_ClosedBeforeSetup ==
    /\ [](pc \in AfterLoad => elf_fd = "closed")
    /\ [](setups # <<>> => elf_fd = "closed")
    /\ [](elf_fd = "closed" => TraceHas("elf_load"))
    /\ [][elf_fd' # elf_fd /\ elf_fd' = "closed" =>
            pc = "elf_load" /\ elf_fd = "open" /\ pc' = "vcpu_init"]_vars
    /\ [][calls' # calls => elf_fd = "open" /\ elf_fd' = "open"]_vars

C18_Witness == elf_fd = "closed" /\ calls # <<>> /\ setups # <<>>

\* The audit has let the boot go on
AuditPassed ==
    pc \in {"boot_info", "drop", "handoff", "vcpu_loop"}
        \/ TraceHas("boot_info")

\* C19 as stated: the audit lets the boot go on only if every non-reserved
\* entry was attached by exactly one module.
C19_ExactlyOneClaimer ==
    AuditPassed => \A i \in Devices : Cardinality(claimers[i]) = 1

\* C19: the audit lets the boot go on only if every non-reserved entry was
\* attached by at least one module (its attached flag is set exactly then);
\* it ends the boot with exit code 1 when some non-reserved entry was
\* attached by none.  How many modules attached an entry is not looked at.
C19_AuditAttached ==
    /\ Len(claimers) = Len(mft)
    /\ \A i \in Devices : mft[i].attached <=> claimers[i] # {}
    /\ AuditPassed => \A i \in Devices : claimers[i] # {}
    /\ err = "UnattachedDevices" =>
          /\ pc = "exited" /\ exit_code = 1
          /\ \E i \in Devices : claimers[i] = {}

C19_Witness ==
    /\ pc = "boot_info"
    /\ \E i \in Devices : Cardinality(claimers[i]) >= 2

\* C20: the count always equals the number of tokens from the cursor to the
\* end of the argument vector, every step moves the cursor forward by as
\* much as it lowers the count, and boot-info construction receives a count
\* equal to the number of tokens from the cursor it receives to the end.
C20_CountMatchesCursor ==
    /\ [](argc = Len(args) + 1 - argv /\ argc >= 0)
    /\ [][argv' - argv = argc - argc' /\ argv' >= argv]_vars
    /\ [](TraceHas("boot_info") =>
            /\ bi_argc = argc /\ bi_argv = argv
            /\ bi_argv + bi_argc - 1 = Len(args)
            /\ Len(Residual) = bi_argc)

C20_Witness ==
    /\ TraceHas("boot_info")
    /\ bi_argc >= 1
    /\ \E k \in 1..Len(calls) : calls[k][3] = 0

====
